---- MODULE Spec2Model ----
(***************************************************************************)
(* Model of the download core of hentaifox_downloader:                     *)
(*   core/downloader.py  GalleryDLDownloader (job runner, batch pool)      *)
(*   core/history.py     HistoryManager (SQLite history store)             *)
(*   core/converter.py   GalleryConverter (PDF / CBZ archives)             *)
(*   cli/commands/download.py, cli/commands/convert.py,                    *)
(*   gui/tabs/simple_download_tab.py (callers)                             *)
(*                                                                         *)
(* Nine specifications share the variables:                                *)
(*   Spec         a batch run: cli download_multiple -> core               *)
(*                download_multiple over a ThreadPoolExecutor              *)
(*   SpecFair     a batch run with --continue, its threads scheduled       *)
(*   SpecSingle   concurrent single downloads with known gallery metadata  *)
(*                (GUI SimpleDownloadWorker threads, CLI download_gallery) *)
(*   SpecRunner   one download_gallery call alone, over every stdout       *)
(*   SpecHistory  a sequential client of the HistoryManager                *)
(*   SpecChain    one single download with its chained conversion          *)
(*   SpecConvert  the convert command on every gallery directory           *)
(*   SpecList     one get_image_files call on a directory                  *)
(*   SpecConfig   threads preparing their temp config on one runner        *)
(***************************************************************************)
EXTENDS Integers, Sequences, FiniteSets, TLC

\* ---------------------------------------------------------------- bounds
MaxUrls == 2        \* longest URL list handed to download_multiple
MaxWorkers == 2     \* largest download.max_parallel_galleries explored
MaxLines == 2       \* longest stdout (in lines) of the external tool
MaxThreads == 2     \* concurrent single-download threads in SpecSingle
MaxOps == 3         \* history operations of the sequential client
MaxImages == 3      \* most image files in a gallery directory

\* ------------------------------------------------------------ value sets
None == "None"

\* a gallery page, the site's front page (no gallery id in it) and a string
\* that is no HentaiFox URL
URLs == {"https://hentaifox.com/gallery/147838/", "https://hentaifox.com/",
         "bad-url"}

\* HentaiFoxSite.is_valid_url: "hentaifox.com" in url.lower()
is_valid_url(url) ==
  url \in {"https://hentaifox.com/gallery/147838/", "https://hentaifox.com/"}

Galleries == {"147838", "2"}

\* HentaiFoxSite.extract_gallery_id: the id in the URL, None without a match
GalleryOf(url) ==
  IF url = "https://hentaifox.com/gallery/147838/" THEN "147838" ELSE None

Sites == {"hentaifox", "other"}

DownloadDir == "Downloads/HFox/title"

\* One stdout line of gallery-dl, reduced to what the parsers look at:
\*   downloads  'Downloads' in line
\*   ext        any(ext in line for ext in ['.webp','.jpg','.png','.gif'])
\*   skip       any(s in line.lower() for s in ['error','failed','skipping'])
\*   parent     Path(line.strip()).parent
StdoutLines ==
  { [downloads |-> FALSE, ext |-> FALSE, skip |-> FALSE, parent |-> "."],
    [downloads |-> FALSE, ext |-> TRUE,  skip |-> FALSE, parent |-> "."],
    [downloads |-> TRUE,  ext |-> TRUE,  skip |-> FALSE, parent |-> DownloadDir],
    [downloads |-> TRUE,  ext |-> TRUE,  skip |-> TRUE,  parent |-> DownloadDir] }

SeqsUpTo(S, n) == UNION { [1..k -> S] : k \in 0..n }

Stdouts == SeqsUpTo(StdoutLines, MaxLines)

\* the outputs the concurrent specifications draw from: nothing printed, one
\* downloaded file, one file reported with an error (SpecRunner draws from
\* all of Stdouts)
JobStdouts ==
  { <<>>,
    <<[downloads |-> TRUE, ext |-> TRUE, skip |-> FALSE, parent |-> DownloadDir]>>,
    <<[downloads |-> TRUE, ext |-> TRUE, skip |-> TRUE, parent |-> DownloadDir]>> }

\* ------------------------------------------------------------- variables
VARIABLES
  enable_history,     \* config history.enable_history
  max_workers,        \* config download.max_parallel_galleries
  continue_on_error,  \* cli option --continue/--stop-on-error
  input_urls,         \* cli argument: the URLs given to the batch command
  urls,               \* valid_urls, the list given to core download_multiple
  submitted,          \* number of executor.submit calls made so far
  pc,                 \* per job thread: position in download_gallery / caller
  caller,             \* per job thread: "batch", "gui" or "cli"
  ginfo,              \* per job thread: gallery_info argument (id or None)
  proc,               \* per job thread: what the gallery-dl subprocess did
  ret,                \* per job thread: outcome of download_gallery (future)
  tmpfiles,           \* temp config files existing on disk (by job)
  yielded,            \* futures yielded by as_completed, in order
  results,            \* the results list of download_multiple
  progress_calls,     \* (completed, total) pairs passed to progress_callback
  mainpc,             \* orchestrating thread: "validating", "running",
                      \* "returned", "summarised" or "exit1" (typer.Exit(1))
  successful,         \* cli summary counter
  failed,             \* cli summary counter
  rows,               \* the downloads table
  nextId,             \* next AUTOINCREMENT id
  now,                \* clock behind datetime.now()
  hctx,               \* per job thread: who called add_download
  add_calls,          \* per job thread: number of add_download calls made
  store_raised,       \* per job thread: a history statement raised sqlite3.Error
  calls,              \* SpecHistory: log of operations and their returns
  auto_convert,       \* config conversion.auto_convert
  default_format,     \* config conversion.default_format
  delete_source_after_conversion,  \* config of the same name
  options,            \* per job thread: convert_to / format_type,
                      \* delete_images / delete_source, output (cli, gui)
  max_history_entries,  \* config history.max_history_entries
  base_config,        \* the runner's self.base_config["extractor"] dict
  config_files,       \* per job thread: what json.dump wrote to its temp file
  disk,               \* per job thread: the gallery directory and the archive
  conv,               \* per job thread: locals of the running converter call
  conv_calls,         \* per job thread: number of converter calls made
  shown               \* per job thread: what the caller reported

cfgvars == <<enable_history, max_workers, continue_on_error, input_urls,
             auto_convert, default_format, delete_source_after_conversion,
             options, max_history_entries, base_config, config_files>>
convvars == <<disk, conv, conv_calls, shown>>
jobvars == <<pc, caller, ginfo, proc, ret, tmpfiles, hctx, add_calls,
            store_raised>>
mainvars == <<urls, submitted, yielded, results, progress_calls, mainpc,
              successful, failed>>
histvars == <<rows, nextId, now>>
vars == <<cfgvars, jobvars, mainvars, histvars, calls, convvars>>

Jobs == DOMAIN pc

\* -------------------------------------------------------- DownloadResult
DownloadResult(s, g, p, f, e) ==
  [success |-> s, gallery_info |-> g, download_path |-> p,
   files_downloaded |-> f, error_message |-> e]

NoOutcome == [kind |-> "none"]
Returned(r) == [kind |-> "return", value |-> r]
Raised(e) == [kind |-> "raise", exc |-> e]

\* what subprocess.run did: kind is "none" (not run yet), "notfound"
\* (FileNotFoundError), "exit0", "nonzero" or "timeout" (TimeoutExpired)
NoProc == [kind |-> "none", stdout |-> <<>>, stderr |-> ""]

Stderrs == {"", "gallery-dl: error"}

\* ------------------------------------------------ stdout parsing helpers
IsPathLine(line) == line.downloads /\ line.ext

_extract_download_path(output) ==
  IF \E i \in 1..Len(output) : IsPathLine(output[i])
  THEN output[CHOOSE i \in 1..Len(output) :
                 /\ IsPathLine(output[i])
                 /\ \A k \in 1..(i-1) : ~IsPathLine(output[k])].parent
  ELSE None

IsCountedLine(line) == line.ext /\ line.downloads /\ ~line.skip

_count_downloaded_files(output) ==
  Cardinality({ i \in 1..Len(output) : IsCountedLine(output[i]) })

\* variant: only subprocess.TimeoutExpired is caught, anything else propagates
download_gallery_except_timeout_only(e, gallery_info) ==
  IF e = "TimeoutExpired"
  THEN Returned(DownloadResult(FALSE, gallery_info, None, 0, "Download timed out"))
  ELSE Raised(e)

\* variant: a timeout is reported with the text of the exception instead of
\* through its own except clause
download_gallery_except_generic(e, gallery_info) ==
  Returned(DownloadResult(FALSE, gallery_info, None, 0, e))

\* the except clauses of download_gallery: every Exception becomes a result
download_gallery_except(e, gallery_info) ==
  IF e = "TimeoutExpired"
  THEN Returned(DownloadResult(FALSE, gallery_info, None, 0, "Download timed out"))
  ELSE Returned(DownloadResult(FALSE, gallery_info, None, 0, e))

\* ------------------------------------------------------------ file names
\* A file name, like every text that is compared, is the sequence of its
\* characters.
DigitChars == <<"0", "1", "2", "3", "4", "5", "6", "7", "8", "9">>

UpperChars == <<"A", "B", "C", "D", "E", "F", "G", "H", "I", "J", "K", "L", "M",
                "N", "O", "P", "Q", "R", "S", "T", "U", "V", "W", "X", "Y", "Z">>

LowerChars == <<"a", "b", "c", "d", "e", "f", "g", "h", "i", "j", "k", "l", "m",
                "n", "o", "p", "q", "r", "s", "t", "u", "v", "w", "x", "y", "z">>

\* the character SUPERSCRIPT TWO (U+00B2): a digit for str.isdigit(), but no
\* decimal digit for re's \d and for int()
SuperscriptTwo == "U+00B2"

\* the characters in code point order, as far as file names here use them
CodePoints == <<".">> \o DigitChars \o UpperChars \o <<"_">> \o LowerChars
              \o <<SuperscriptTwo>>

ord(c) == CHOOSE k \in 1..Len(CodePoints) : CodePoints[k] = c

\* the characters matched by \d in the pattern of re.split
IsDecimal(c) == \E k \in 1..Len(DigitChars) : DigitChars[k] = c

\* str.isdigit(): a non-empty string of digit characters
isdigit(s) ==
  /\ s # <<>>
  /\ \A k \in 1..Len(s) : IsDecimal(s[k]) \/ s[k] = SuperscriptTwo

\* str.lower() on one character and on a string
lower_char(c) ==
  IF \E k \in 1..Len(UpperChars) : UpperChars[k] = c
  THEN LowerChars[CHOOSE k \in 1..Len(UpperChars) : UpperChars[k] = c]
  ELSE c

lower(s) == [k \in 1..Len(s) |-> lower_char(s[k])]

\* int() raises ValueError on a string that is no run of decimal digits
int_raises(run) == run = <<>> \/ \E k \in 1..Len(run) : ~IsDecimal(run[k])

\* int() of a run of decimal digits
RECURSIVE int(_)
int(run) ==
  IF run = <<>> THEN 0
  ELSE int(SubSeq(run, 1, Len(run) - 1)) * 10
       + (CHOOSE k \in 1..Len(DigitChars) : DigitChars[k] = run[Len(run)]) - 1

\* str() of a natural number
RECURSIVE str(_)
str(n) ==
  IF n < 10 THEN <<DigitChars[n + 1]>>
  ELSE str(n \div 10) \o <<DigitChars[(n % 10) + 1]>>

\* re.split(r'(\d+)', text): the pieces between the digit runs (odd
\* positions, possibly empty) and the digit runs themselves (even positions)
RECURSIVE re_split(_, _)
re_split(text, acc) ==
  IF text = <<>>
  THEN IF Len(acc) % 2 = 0 THEN Append(acc, <<>>) ELSE acc
  ELSE IF IsDecimal(Head(text)) <=> (Len(acc) % 2 = 0)
       THEN re_split(Tail(text), [acc EXCEPT ![Len(acc)] = Append(@, Head(text))])
       ELSE re_split(Tail(text), Append(acc, <<Head(text)>>))

\* converter.py line 47 raises when a piece passes c.isdigit() and int(c)
\* rejects it
_natural_sort_key_raises(text) ==
  LET pieces == re_split(text, << <<>> >>)
  IN \E k \in 1..Len(pieces) : isdigit(pieces[k]) /\ int_raises(pieces[k])

\* converter.py lines 44-47: int(c) if c.isdigit() else c.lower() for every
\* piece c
_natural_sort_key(text) ==
  LET pieces == re_split(text, << <<>> >>)
  IN [k \in 1..Len(pieces) |->
        IF isdigit(pieces[k]) THEN int(pieces[k]) ELSE lower(pieces[k])]

\* Python's < on two strings
RECURSIVE str_less(_, _)
str_less(a, b) ==
  IF b = <<>> THEN FALSE
  ELSE IF a = <<>> THEN TRUE
  ELSE IF Head(a) = Head(b) THEN str_less(Tail(a), Tail(b))
  ELSE ord(Head(a)) < ord(Head(b))

\* Python's < on two sort keys (lists), compared from position k on; the
\* keys hold integers at the even positions and strings at the odd ones
RECURSIVE key_less(_, _, _)
key_less(a, b, k) ==
  IF k > Len(b) THEN FALSE
  ELSE IF k > Len(a) THEN TRUE
  ELSE IF a[k] = b[k] THEN key_less(a, b, k + 1)
  ELSE IF k % 2 = 0 THEN a[k] < b[k] ELSE str_less(a[k], b[k])

\* pathlib PurePath.suffix
suffix(name) ==
  LET dots == { k \in 1..Len(name) : name[k] = "." }
      last == CHOOSE k \in dots : \A m \in dots : m <= k
  IN IF dots = {} THEN <<>>
     ELSE IF last = 1 \/ last = Len(name) THEN <<>>
     ELSE SubSeq(name, last, Len(name))

\* GalleryConverter.supported_formats
supported_formats ==
  { <<".", "j", "p", "g">>, <<".", "j", "p", "e", "g">>, <<".", "p", "n", "g">>,
    <<".", "w", "e", "b", "p">>, <<".", "g", "i", "f">>, <<".", "b", "m", "p">> }

\* ------------------------------------------------------- history store
\* ids are AUTOINCREMENT integers starting at 1; NoId stands for NULL/None
NoId == 0

\* the clock counts half seconds. datetime.isoformat() of a reading, reduced
\* to its seconds and fraction: "SS", or "SS.5" when the microseconds are not
\* zero (isoformat leaves a zero fraction out)
isoformat(t) ==
  (IF t \div 2 < 10 THEN <<"0">> ELSE <<>>) \o str(t \div 2)
    \o (IF t % 2 = 1 THEN <<".", "5">> ELSE <<>>)

\* SQLite's <= on two TEXT values (BINARY collation)
text_le(a, b) == a = b \/ str_less(a, b)

KeyRows(gallery_id, site) ==
  { r \in rows : r.gallery_id = gallery_id /\ r.site = site }

\* variant: the existence check forgets the site column
is_downloaded_any_site(gallery_id, site) ==
  { r \in rows : r.gallery_id = gallery_id } # {}

\* SELECT COUNT(*) ... WHERE gallery_id = ? AND site = ?   > 0
is_downloaded(gallery_id, site) == KeyRows(gallery_id, site) # {}

\* SELECT id ... ORDER BY downloaded_at DESC LIMIT 1: the ids SQLite may
\* return (rows with equal downloaded_at are in no defined order)
get_download_id(gallery_id, site) ==
  IF KeyRows(gallery_id, site) = {} THEN {NoId}
  ELSE { r.id : r \in { x \in KeyRows(gallery_id, site) :
                          \A y \in KeyRows(gallery_id, site) :
                             text_le(y.downloaded_at, x.downloaded_at) } }

\* INSERT INTO downloads (...) VALUES (...) at time t
InsertRow(gallery_id, download_path, files_count, site, t) ==
  rows \cup { [id |-> nextId, gallery_id |-> gallery_id, site |-> site,
               download_path |-> download_path, files_count |-> files_count,
               downloaded_at |-> isoformat(t)] }

\* ------------------------------------------- download_gallery (the runner)
\* lines 64-87: temp config written, gallery-dl started
RunnerStart(j) ==
  /\ pc[j] = "PENDING"
  /\ \/ \* NamedTemporaryFile raises: no file, except Exception
        /\ ret' = [ret EXCEPT ![j] = download_gallery_except("OSError", ginfo[j])]
        /\ pc' = [pc EXCEPT ![j] = "RETURNED"]
        /\ UNCHANGED <<tmpfiles, proc>>
     \/ \* subprocess.run raises FileNotFoundError (gallery-dl not in PATH)
        /\ tmpfiles' = tmpfiles \cup {j}
        /\ proc' = [proc EXCEPT ![j] = [NoProc EXCEPT !.kind = "notfound"]]
        /\ ret' = [ret EXCEPT ![j] =
                     download_gallery_except("FileNotFoundError", ginfo[j])]
        /\ pc' = [pc EXCEPT ![j] = "RETURNED"]
     \/ \* the subprocess is running
        /\ tmpfiles' = tmpfiles \cup {j}
        /\ pc' = [pc EXCEPT ![j] = "RUNNING"]
        /\ UNCHANGED <<ret, proc>>
  /\ UNCHANGED <<caller, ginfo, hctx, add_calls, store_raised>>

\* variant: the result carries the file count but no download path
SuccessResult_no_path(j, output) ==
  DownloadResult(TRUE, ginfo[j], None, _count_downloaded_files(output), None)

\* the result built at lines 106-111 from the parsed stdout
SuccessResult(j, output) ==
  DownloadResult(TRUE, ginfo[j], _extract_download_path(output),
                 _count_downloaded_files(output), None)

\* line 98: the guard of the history.add_download call
ShouldRecord(j, output) ==
  enable_history /\ ginfo[j] # None /\ _extract_download_path(output) # None

\* variant: after a non-zero exit the runner starts over with a new subprocess
RunnerFinish_retry(j, outs) ==
  /\ pc[j] = "RUNNING"
  /\ \/ \* TimeoutExpired: os.unlink is skipped
        /\ proc' = [proc EXCEPT ![j] = [NoProc EXCEPT !.kind = "timeout"]]
        /\ ret' = [ret EXCEPT ![j] =
                     download_gallery_except("TimeoutExpired", ginfo[j])]
        /\ pc' = [pc EXCEPT ![j] = "RETURNED"]
        /\ UNCHANGED <<tmpfiles, hctx, add_calls>>
     \/ \* returncode # 0
        \E err \in Stderrs :
          /\ proc' = [proc EXCEPT ![j] =
                        [kind |-> "nonzero", stdout |-> <<>>, stderr |-> err]]
          /\ tmpfiles' = tmpfiles \ {j}
          /\ pc' = [pc EXCEPT ![j] = "PENDING"]
          /\ UNCHANGED <<ret, hctx, add_calls>>
     \/ \* returncode = 0
        \E out \in outs :
          /\ proc' = [proc EXCEPT ![j] =
                        [kind |-> "exit0", stdout |-> out, stderr |-> ""]]
          /\ tmpfiles' = tmpfiles \ {j}
          /\ IF ShouldRecord(j, out)
             THEN /\ pc' = [pc EXCEPT ![j] = "add_check"]
                  /\ hctx' = [hctx EXCEPT ![j] = "runner"]
                  /\ add_calls' = [add_calls EXCEPT ![j] = @ + 1]
                  /\ UNCHANGED ret
             ELSE /\ ret' = [ret EXCEPT ![j] = Returned(SuccessResult(j, out))]
                  /\ pc' = [pc EXCEPT ![j] = "RETURNED"]
                  /\ UNCHANGED <<hctx, add_calls>>
  /\ UNCHANGED <<caller, ginfo, store_raised>>

\* lines 82-119 and 121-128: the subprocess ends (or its timeout expires)
RunnerFinish(j, outs) ==
  /\ pc[j] = "RUNNING"
  /\ \/ \* TimeoutExpired: os.unlink is skipped
        /\ proc' = [proc EXCEPT ![j] = [NoProc EXCEPT !.kind = "timeout"]]
        /\ ret' = [ret EXCEPT ![j] =
                     download_gallery_except("TimeoutExpired", ginfo[j])]
        /\ pc' = [pc EXCEPT ![j] = "RETURNED"]
        /\ UNCHANGED <<tmpfiles, hctx, add_calls>>
     \/ \* returncode # 0
        \E err \in Stderrs :
          /\ proc' = [proc EXCEPT ![j] =
                        [kind |-> "nonzero", stdout |-> <<>>, stderr |-> err]]
          /\ tmpfiles' = tmpfiles \ {j}
          /\ ret' = [ret EXCEPT ![j] =
                       Returned(DownloadResult(FALSE, ginfo[j], None, 0, err))]
          /\ pc' = [pc EXCEPT ![j] = "RETURNED"]
          /\ UNCHANGED <<hctx, add_calls>>
     \/ \* returncode = 0
        \E out \in outs :
          /\ proc' = [proc EXCEPT ![j] =
                        [kind |-> "exit0", stdout |-> out, stderr |-> ""]]
          /\ tmpfiles' = tmpfiles \ {j}
          /\ IF ShouldRecord(j, out)
             THEN /\ pc' = [pc EXCEPT ![j] = "add_check"]
                  /\ hctx' = [hctx EXCEPT ![j] = "runner"]
                  /\ add_calls' = [add_calls EXCEPT ![j] = @ + 1]
                  /\ UNCHANGED ret
             ELSE /\ ret' = [ret EXCEPT ![j] = Returned(SuccessResult(j, out))]
                  /\ pc' = [pc EXCEPT ![j] = "RETURNED"]
                  /\ UNCHANGED <<hctx, add_calls>>
  /\ UNCHANGED <<caller, ginfo, store_raised>>

\* ------------------------------ history.add_download, statement by statement
\* Every SQL statement runs on its own connection, so a concurrent caller can
\* run between the existence check (line 68) and the INSERT (lines 75-90).

\* the download_path / files_count arguments of the call job j is in:
\* downloader.py lines 99-104 (runner) or simple_download_tab.py 466-471 (gui)
AddPath(j) ==
  IF hctx[j] = "runner" THEN _extract_download_path(proc[j].stdout)
  ELSE ret[j].value.download_path

AddCount(j) ==
  IF hctx[j] = "runner" THEN _count_downloaded_files(proc[j].stdout)
  ELSE ret[j].value.files_downloaded

\* add_download returns: the runner builds its success result (lines 106-111),
\* the gui worker goes on to download_complete (line 475)
AddReturn(j) ==
  IF hctx[j] = "runner"
  THEN /\ ret' = [ret EXCEPT ![j] = Returned(SuccessResult(j, proc[j].stdout))]
       /\ pc' = [pc EXCEPT ![j] = "RETURNED"]
  ELSE /\ pc' = [pc EXCEPT ![j] = "FINISHED"]
       /\ UNCHANGED ret

\* line 68: if self.is_downloaded(gallery_info.id, site)
AddCheck(j) ==
  /\ pc[j] = "add_check"
  /\ pc' = [pc EXCEPT ![j] = IF is_downloaded(ginfo[j], "hentaifox")
                             THEN "add_getid" ELSE "add_insert"]
  /\ UNCHANGED <<cfgvars, caller, ginfo, proc, ret, tmpfiles, hctx, add_calls,
                 store_raised, mainvars, histvars, calls, convvars>>

\* line 69: return self.get_download_id(gallery_info.id, site)
AddGetId(j) ==
  /\ pc[j] = "add_getid"
  /\ AddReturn(j)
  /\ UNCHANGED <<cfgvars, caller, ginfo, proc, tmpfiles, hctx, add_calls,
                 store_raised, mainvars, histvars, calls, convvars>>

\* lines 75-90: INSERT with downloaded_at = datetime.now().isoformat()
AddInsert(j) ==
  /\ pc[j] = "add_insert"
  /\ \E t \in {now, now + 1} :
       /\ rows' = InsertRow(ginfo[j], AddPath(j), AddCount(j), "hentaifox", t)
       /\ now' = t
  /\ nextId' = nextId + 1
  /\ AddReturn(j)
  /\ UNCHANGED <<cfgvars, caller, ginfo, proc, tmpfiles, hctx, add_calls,
                 store_raised, mainvars, calls, convvars>>

\* a statement raises sqlite3.Error: inside download_gallery it is caught by
\* except Exception (lines 129-136); the gui worker catches it at line 472
AddFault(j) ==
  /\ pc[j] \in {"add_check", "add_getid", "add_insert"}
  /\ IF hctx[j] = "runner"
     THEN /\ ret' = [ret EXCEPT ![j] =
                       download_gallery_except("sqlite3.OperationalError", ginfo[j])]
          /\ pc' = [pc EXCEPT ![j] = "RETURNED"]
     ELSE /\ pc' = [pc EXCEPT ![j] = "FINISHED"]
          /\ UNCHANGED ret
  /\ store_raised' = [store_raised EXCEPT ![j] = TRUE]
  /\ UNCHANGED <<cfgvars, caller, ginfo, proc, tmpfiles, hctx, add_calls,
                 mainvars, histvars, calls, convvars>>

\* ------------------------------------------------- the gallery directory
\* image files a gallery directory may hold: 1.jpg, 2.PNG, 02.png, 10.jpg
ImageNames ==
  { <<"1", ".", "j", "p", "g">>, <<"2", ".", "P", "N", "G">>,
    <<"0", "2", ".", "p", "n", "g">>, <<"1", "0", ".", "j", "p", "g">> }

\* other files: info.txt
OtherNames == { <<"i", "n", "f", "o", ".", "t", "x", "t">> }

\* an image file is "ok", "corrupt" (readable, but PIL cannot decode it) or
\* "unreadable" (opening it raises)
Statuses == {"ok", "corrupt", "unreadable"}

File(n, st) == [name |-> n, status |-> st]

\* every directory content with at most MaxImages image files
Dirs ==
  UNION { UNION { { { File(n, st[n]) : n \in S } \cup { File(n, "ok") : n \in O }
                    : st \in [S -> Statuses] }
                  : O \in SUBSET OtherNames }
          : S \in { T \in SUBSET ImageNames : Cardinality(T) <= MaxImages } }

\* what a download leaves behind in the specifications that chain a
\* conversion to it: nothing, one good image, one image and a text file, a
\* corrupt image next to an unreadable one
JobDirs ==
  { {},
    { File(<<"1", ".", "j", "p", "g">>, "ok") },
    { File(<<"1", ".", "j", "p", "g">>, "ok"),
      File(<<"i", "n", "f", "o", ".", "t", "x", "t">>, "ok") },
    { File(<<"1", ".", "j", "p", "g">>, "corrupt"),
      File(<<"2", ".", "P", "N", "G">>, "unreadable") } }

\* converter.py line 38: is_file() and suffix.lower() in supported_formats
IsImage(f) ==
  /\ f.status # "directory"
  /\ lower(suffix(f.name)) \in supported_formats

\* converter.py line 42: sorted() raises when the key of a file raises
get_image_files_raises(files) ==
  \E f \in files : IsImage(f) /\ _natural_sort_key_raises(f.name)

\* converter.py lines 31-42: the image files in natural order; sorted() is
\* stable and iterdir() yields in no defined order, so files with equal keys
\* may come either way round: the set of lists the call may return
get_image_files(files) ==
  LET images == { f \in files : IsImage(f) }
      n == Cardinality(images)
  IN { l \in [1..n -> images] :
         /\ \A a, b \in 1..n : a # b => l[a] # l[b]
         /\ \A a, b \in 1..n :
              a < b => ~key_less(_natural_sort_key(l[b].name),
                                 _natural_sort_key(l[a].name), 1) }

\* converter.py line 158: f"{i+1:03d}{extension}" for the 0-based index i
archive_name(i, extension) ==
  LET digits == str(i + 1)
  IN IF Len(digits) >= 3 THEN digits \o extension
     ELSE [k \in 1..(3 - Len(digits)) |-> "0"] \o digits \o extension

\* ----------------------------------------------------- GalleryConverter
ConversionResult(s, o, n, e) ==
  [success |-> s, output_path |-> o, input_files_count |-> n,
   error_message |-> e]

\* the archive file: absent, or written inside / outside the gallery
\* directory with its entries (CBZ: archive name and source file; PDF: one
\* page per source file, no name)
NoArchive == [exists |-> FALSE, inside |-> TRUE, entries |-> <<>>]

Disk(files) == [exists |-> TRUE, files |-> files, archive |-> NoArchive]

\* a job whose directory has not been looked at
NoDisk == [exists |-> FALSE, files |-> {}, archive |-> NoArchive]

\* the locals of a convert_to_pdf / convert_to_cbz call
NoConv ==
  [source_dir |-> None, format_type |-> None, delete_source |-> FALSE,
   output_path |-> None, image_files |-> <<>>, i |-> 0, pdf_images |-> <<>>,
   returned |-> FALSE, result |-> ConversionResult(FALSE, None, 0, None)]

Call(source_dir, format_type, output_path, delete_source) ==
  [NoConv EXCEPT !.source_dir = source_dir, !.format_type = format_type,
                 !.output_path = output_path, !.delete_source = delete_source]

NoShown == [download |-> "none", conversion |-> "none", final |-> "none"]

\* the options of a call that asks for no conversion
NoOptions == [convert_to |-> None, delete_images |-> FALSE, output |-> None]

\* n job threads that have not converted anything
InitConv(n) ==
  /\ disk = [j \in 1..n |-> NoDisk]
  /\ conv = [j \in 1..n |-> NoConv]
  /\ conv_calls = [j \in 1..n |-> 0]
  /\ shown = [j \in 1..n |-> NoShown]

\* config/defaults.py: no automatic conversion
InitNoConversion ==
  /\ auto_convert = FALSE
  /\ default_format = "none"
  /\ delete_source_after_conversion = FALSE

\* str.lower() on the format strings that occur
lower_format(f) ==
  CASE f = "PDF" -> "pdf"
    [] f = "CBZ" -> "cbz"
    [] OTHER -> f

\* lines 62-64 and 146-148: output_path, by default inside source_dir
OutputPath(c) ==
  IF c.output_path # None THEN c.output_path
  ELSE IF lower_format(c.format_type) = "pdf"
       THEN "Downloads/HFox/title/title.pdf"
       ELSE "Downloads/HFox/title/title.cbz"

\* lines 119-123 and 178-182
ConvSuccess(c) ==
  ConversionResult(TRUE, OutputPath(c), Len(c.image_files), None)

\* simple_download_tab.py lines 463-475: the gui worker records the download
\* and emits download_complete whatever add_download does
GuiRecord(j) ==
  IF ret[j].value.gallery_info # None /\ ret[j].value.download_path # None
  THEN /\ pc' = [pc EXCEPT ![j] = "add_check"]
       /\ hctx' = [hctx EXCEPT ![j] = "gui"]
       /\ add_calls' = [add_calls EXCEPT ![j] = @ + 1]
  ELSE /\ pc' = [pc EXCEPT ![j] = "FINISHED"]
       /\ UNCHANGED <<hctx, add_calls>>

\* variant: the cli exits with code 1 when the chained conversion failed
ConvReturn_exit_on_failure(j, res, c) ==
  /\ conv' = [conv EXCEPT ![j] = [c EXCEPT !.returned = TRUE, !.result = res]]
  /\ CASE caller[j] = "gui" ->
            /\ shown' = [shown EXCEPT
                 ![j].conversion = IF res.success /\ res.output_path # None
                                   THEN "converted" ELSE "failed",
                 ![j].final = "download_complete"]
            /\ GuiRecord(j)
       [] caller[j] = "cli" ->
            /\ shown' = [shown EXCEPT
                 ![j].conversion = IF res.success THEN "converted" ELSE "failed",
                 ![j].final = IF res.success THEN "exit0" ELSE "exit1"]
            /\ pc' = [pc EXCEPT ![j] = "FINISHED"]
            /\ UNCHANGED <<hctx, add_calls>>
       [] caller[j] = "convert" ->
            /\ shown' = [shown EXCEPT
                 ![j].conversion = IF res.success THEN "converted" ELSE "failed",
                 ![j].final = IF res.success THEN "exit0" ELSE "exit1"]
            /\ pc' = [pc EXCEPT ![j] = "FINISHED"]
            /\ UNCHANGED <<hctx, add_calls>>

\* the converter returns res to its caller: cli download.py lines 162-167
\* (no exit), simple_download_tab.py lines 455-475, cli convert.py lines
\* 69-83 (typer.Exit(1) on failure)
ConvReturn(j, res, c) ==
  /\ conv' = [conv EXCEPT ![j] = [c EXCEPT !.returned = TRUE, !.result = res]]
  /\ CASE caller[j] = "gui" ->
            /\ shown' = [shown EXCEPT
                 ![j].conversion = IF res.success /\ res.output_path # None
                                   THEN "converted" ELSE "failed",
                 ![j].final = "download_complete"]
            /\ GuiRecord(j)
       [] caller[j] = "cli" ->
            /\ shown' = [shown EXCEPT
                 ![j].conversion = IF res.success THEN "converted" ELSE "failed",
                 ![j].final = "exit0"]
            /\ pc' = [pc EXCEPT ![j] = "FINISHED"]
            /\ UNCHANGED <<hctx, add_calls>>
       [] caller[j] = "convert" ->
            /\ shown' = [shown EXCEPT
                 ![j].conversion = IF res.success THEN "converted" ELSE "failed",
                 ![j].final = IF res.success THEN "exit0" ELSE "exit1"]
            /\ pc' = [pc EXCEPT ![j] = "FINISHED"]
            /\ UNCHANGED <<hctx, add_calls>>

\* what no converter step changes
convframe == <<cfgvars, caller, ginfo, proc, ret, tmpfiles, store_raised,
               mainvars, histvars, calls, conv_calls>>

\* the converter goes on without returning
ConvGoto(j, c, label) ==
  /\ conv' = [conv EXCEPT ![j] = c]
  /\ pc' = [pc EXCEPT ![j] = label]
  /\ UNCHANGED <<shown, hctx, add_calls>>

\* convert_gallery lines 247-259, then lines 52-64 / 136-152: the image files
\* are listed and, for CBZ, the ZipFile is opened for writing
ConvScan(j) ==
  /\ pc[j] = "conv_scan"
  /\ LET c == conv[j] IN
       IF lower_format(c.format_type) \notin {"pdf", "cbz"}
       THEN /\ ConvReturn(j, ConversionResult(FALSE, None, 0, "Unsupported format"), c)
            /\ UNCHANGED disk
       ELSE IF c.source_dir = None
       THEN \* get_image_files(None) raises inside the try block
            /\ ConvReturn(j, ConversionResult(FALSE, None, 0, "AttributeError"), c)
            /\ UNCHANGED disk
       ELSE IF get_image_files_raises(disk[j].files)
       THEN \* ValueError inside the try block, lines 125-131 / 184-190
            /\ ConvReturn(j, ConversionResult(FALSE, None, 0, "ValueError"), c)
            /\ UNCHANGED disk
       ELSE \E l \in get_image_files(disk[j].files) :
              IF l = <<>>
              THEN /\ ConvReturn(j, ConversionResult(FALSE, None, 0,
                                      "No image files found in directory"), c)
                   /\ UNCHANGED disk
              ELSE IF lower_format(c.format_type) = "pdf"
              THEN /\ ConvGoto(j, [c EXCEPT !.image_files = l], "conv_loop")
                   /\ UNCHANGED disk
              ELSE \/ \* zipfile.ZipFile(output_path, 'w') raises
                      /\ ConvReturn(j, ConversionResult(FALSE, None, Len(l), "OSError"),
                                    [c EXCEPT !.image_files = l])
                      /\ UNCHANGED disk
                   \/ /\ disk' = [disk EXCEPT ![j].archive =
                                    [exists |-> TRUE, inside |-> c.output_path = None,
                                     entries |-> <<>>]]
                      /\ ConvGoto(j, [c EXCEPT !.image_files = l], "conv_loop")
  /\ UNCHANGED convframe

\* lines 115-123 / 174-182: the archive is written
AfterWrite(j, c) ==
  IF c.delete_source
  THEN ConvGoto(j, c, "conv_delete")
  ELSE ConvReturn(j, ConvSuccess(c), c)

\* variant: the PDF loop keeps an image whatever Image.open did
ConvImage_no_skip(j) ==
  /\ pc[j] = "conv_loop"
  /\ LET c == conv[j]
         img == c.image_files[c.i + 1]
         more == c.i + 1 < Len(c.image_files)
     IN IF lower_format(c.format_type) = "pdf"
        THEN /\ ConvGoto(j, [c EXCEPT !.i = @ + 1,
                                      !.pdf_images = Append(@, img.name)],
                         IF more THEN "conv_loop" ELSE "conv_save")
             /\ UNCHANGED disk
        ELSE /\ ConvGoto(j, [c EXCEPT !.i = @ + 1],
                         IF more THEN "conv_loop" ELSE "conv_close")
             /\ disk' = [disk EXCEPT ![j].archive.entries =
                           IF img.status # "unreadable"
                           THEN Append(@, [name |-> archive_name(c.i, lower(suffix(img.name))),
                                           src |-> img.name])
                           ELSE @]
  /\ UNCHANGED convframe

\* lines 70-90 (PDF) and 154-172 (CBZ): one iteration of the loop over
\* image_files; an image that raises is skipped with a warning
ConvImage(j) ==
  /\ pc[j] = "conv_loop"
  /\ LET c == conv[j]
         img == c.image_files[c.i + 1]
         more == c.i + 1 < Len(c.image_files)
     IN IF lower_format(c.format_type) = "pdf"
        THEN /\ ConvGoto(j, [c EXCEPT !.i = @ + 1,
                                      !.pdf_images = IF img.status = "ok"
                                                     THEN Append(@, img.name)
                                                     ELSE @],
                         IF more THEN "conv_loop" ELSE "conv_save")
             /\ UNCHANGED disk
        ELSE /\ ConvGoto(j, [c EXCEPT !.i = @ + 1],
                         IF more THEN "conv_loop" ELSE "conv_close")
             /\ disk' = [disk EXCEPT ![j].archive.entries =
                           IF img.status # "unreadable"
                           THEN Append(@, [name |-> archive_name(c.i, lower(suffix(img.name))),
                                           src |-> img.name])
                           ELSE @]
  /\ UNCHANGED convframe

\* lines 92-123: no page -> failure; else the PDF is saved from pdf_images
ConvSave(j) ==
  /\ pc[j] = "conv_save"
  /\ LET c == conv[j] IN
       IF c.pdf_images = <<>>
       THEN /\ ConvReturn(j, ConversionResult(FALSE, None, Len(c.image_files),
                               "No images could be processed"), c)
            /\ UNCHANGED disk
       ELSE \/ \* pdf_images[0].save raises: except Exception, lines 125-131
               /\ ConvReturn(j, ConversionResult(FALSE, None, Len(c.image_files),
                                                 "OSError"), c)
               /\ UNCHANGED disk
            \/ /\ disk' = [disk EXCEPT ![j].archive =
                             [exists |-> TRUE, inside |-> c.output_path = None,
                              entries |-> [k \in 1..Len(c.pdf_images) |->
                                             [name |-> <<>>, src |-> c.pdf_images[k]]]]]
               /\ AfterWrite(j, c)
  /\ UNCHANGED convframe

\* lines 151-182: the with block is left, the ZipFile is closed
ConvClose(j) ==
  /\ pc[j] = "conv_close"
  /\ AfterWrite(j, conv[j])
  /\ UNCHANGED disk
  /\ UNCHANGED convframe

\* variant: the directory is removed without looking at what is left
ConvDelete_always_rmdir(j) ==
  /\ pc[j] = "conv_delete"
  /\ \E k \in 0..Len(conv[j].image_files) :
       LET gone == { conv[j].image_files[m] : m \in 1..k }
           left == disk[j].files \ gone
       IN disk' = [disk EXCEPT ![j].files = left, ![j].exists = FALSE]
  /\ ConvReturn(j, ConvSuccess(conv[j]), conv[j])
  /\ UNCHANGED convframe

\* _delete_source_files lines 220-241: image_files are unlinked in order; an
\* unlink may raise (the rest is then left alone, the exception is only
\* printed); after the last one the directory is removed if nothing is left
ConvDelete(j) ==
  /\ pc[j] = "conv_delete"
  /\ \E k \in 0..Len(conv[j].image_files) :
       LET gone == { conv[j].image_files[m] : m \in 1..k }
           left == disk[j].files \ gone
           raised == k < Len(conv[j].image_files)
           remaining == left # {} \/ (disk[j].archive.exists /\ disk[j].archive.inside)
       IN disk' = [disk EXCEPT ![j].files = left,
                               ![j].exists = raised \/ remaining]
  /\ ConvReturn(j, ConvSuccess(conv[j]), conv[j])
  /\ UNCHANGED convframe

\* --------------------------------- the callers of a single download_gallery
SingleStart(j) ==
  /\ caller[j] # "batch"
  /\ RunnerStart(j)
  /\ UNCHANGED <<cfgvars, mainvars, histvars, calls, convvars>>

SingleFinish(j) ==
  /\ caller[j] # "batch"
  /\ RunnerFinish(j, JobStdouts)
  /\ UNCHANGED <<cfgvars, mainvars, histvars, calls, convvars>>

\* the format the caller converts a successful download to, None for no
\* conversion: cli download.py lines 133-154, simple_download_tab.py 437-438
ChainFormat(j) ==
  IF caller[j] = "gui"
  THEN IF options[j].convert_to \notin {None, "none"}
       THEN options[j].convert_to ELSE None
  ELSE IF ret[j].value.download_path = None THEN None
  ELSE IF options[j].convert_to # None
  THEN IF lower_format(options[j].convert_to) \in {"pdf", "cbz"}
       THEN lower_format(options[j].convert_to) ELSE None
  ELSE IF auto_convert /\ default_format \in {"pdf", "cbz"}
  THEN default_format ELSE None

\* should_delete (cli download.py lines 144, 149) / delete_source (gui)
ChainDelete(j) ==
  IF caller[j] = "gui" \/ options[j].convert_to # None
  THEN options[j].delete_images
  ELSE delete_source_after_conversion

\* cli download.py lines 130-170 and simple_download_tab.py lines 433-480:
\* what the caller does with the result of download_gallery, up to the call
\* of the converter
CallerPost(j) ==
  /\ caller[j] \in {"cli", "gui"}
  /\ pc[j] = "RETURNED"
  /\ IF ~ret[j].value.success
     THEN /\ shown' = [shown EXCEPT
               ![j].download = "failed",
               ![j].final = IF caller[j] = "cli" THEN "exit1" ELSE "download_error"]
          /\ pc' = [pc EXCEPT ![j] = "FINISHED"]
          /\ UNCHANGED <<hctx, add_calls, disk, conv, conv_calls>>
     ELSE IF ChainFormat(j) # None
     THEN /\ \E d \in JobDirs : disk' = [disk EXCEPT ![j] = Disk(d)]
          /\ conv' = [conv EXCEPT ![j] =
                        Call(ret[j].value.download_path, ChainFormat(j), None,
                             ChainDelete(j))]
          /\ conv_calls' = [conv_calls EXCEPT ![j] = @ + 1]
          /\ shown' = [shown EXCEPT ![j].download = "completed"]
          /\ pc' = [pc EXCEPT ![j] = "conv_scan"]
          /\ UNCHANGED <<hctx, add_calls>>
     ELSE /\ shown' = [shown EXCEPT
               ![j].download = "completed",
               ![j].final = IF caller[j] = "cli" THEN "exit0" ELSE "download_complete"]
          /\ IF caller[j] = "gui"
             THEN GuiRecord(j)
             ELSE /\ pc' = [pc EXCEPT ![j] = "FINISHED"]
                  /\ UNCHANGED <<hctx, add_calls>>
          /\ UNCHANGED <<disk, conv, conv_calls>>
  /\ UNCHANGED <<cfgvars, caller, ginfo, proc, ret, tmpfiles, store_raised,
                 mainvars, histvars, calls>>

\* cli convert.py lines 12-66: the convert command checks the format and
\* calls converter.convert_gallery
ConvertCmd(j) ==
  /\ caller[j] = "convert"
  /\ pc[j] = "PENDING"
  /\ IF lower_format(options[j].convert_to) \notin {"pdf", "cbz"}
     THEN /\ shown' = [shown EXCEPT ![j].conversion = "rejected",
                                    ![j].final = "exit1"]
          /\ pc' = [pc EXCEPT ![j] = "FINISHED"]
          /\ UNCHANGED <<conv, conv_calls>>
     ELSE /\ conv' = [conv EXCEPT ![j] =
                        Call(DownloadDir, options[j].convert_to,
                             options[j].output, options[j].delete_images)]
          /\ conv_calls' = [conv_calls EXCEPT ![j] = @ + 1]
          /\ pc' = [pc EXCEPT ![j] = "conv_scan"]
          /\ UNCHANGED shown
  /\ UNCHANGED <<cfgvars, caller, ginfo, proc, ret, tmpfiles, store_raised,
                 mainvars, histvars, calls, disk, hctx, add_calls>>

\* ------------------------------------------ download_multiple (the batch)
\* cli download_multiple lines 184-192: the valid_urls list; an invalid URL
\* is skipped with a warning
RECURSIVE valid_urls(_)
valid_urls(us) ==
  IF us = <<>> THEN <<>>
  ELSE IF is_valid_url(Head(us))
       THEN <<Head(us)>> \o valid_urls(Tail(us))
       ELSE valid_urls(Tail(us))

\* cli download_multiple lines 180-226: everything before the core
\* download_multiple is called with valid_urls
CliValidate ==
  /\ mainpc = "validating"
  /\ \/ \* no URL is left (lines 180-196), or gallery-dl is not installed
        \* (lines 209-211): typer.Exit(1)
        /\ mainpc' = "exit1"
        /\ UNCHANGED <<urls, pc, caller, ginfo, proc, ret, hctx, add_calls,
                       store_raised, convvars>>
     \/ /\ valid_urls(input_urls) # <<>>
        /\ urls' = valid_urls(input_urls)
        /\ mainpc' = "running"
        /\ pc' = [j \in 1..Len(urls') |-> "PENDING"]
        /\ caller' = [j \in 1..Len(urls') |-> "batch"]
        /\ ginfo' = [j \in 1..Len(urls') |-> None]
        /\ proc' = [j \in 1..Len(urls') |-> NoProc]
        /\ ret' = [j \in 1..Len(urls') |-> NoOutcome]
        /\ hctx' = [j \in 1..Len(urls') |-> None]
        /\ add_calls' = [j \in 1..Len(urls') |-> 0]
        /\ store_raised' = [j \in 1..Len(urls') |-> FALSE]
        /\ disk' = [j \in 1..Len(urls') |-> NoDisk]
        /\ conv' = [j \in 1..Len(urls') |-> NoConv]
        /\ conv_calls' = [j \in 1..Len(urls') |-> 0]
        /\ shown' = [j \in 1..Len(urls') |-> NoShown]
  /\ UNCHANGED <<cfgvars, tmpfiles, submitted, yielded, results,
                 progress_calls, successful, failed, histvars, calls>>

\* variant: a pool thread is never handed back after its job returned
Busy_never_released == { j \in Jobs : pc[j] # "PENDING" }

\* worker threads of the ThreadPoolExecutor that hold a work item
Busy == { j \in Jobs : pc[j] \notin {"PENDING", "RETURNED"} }

\* line 146: executor.submit(self.download_gallery, url), one url at a time
Submit ==
  /\ mainpc = "running"
  /\ submitted < Len(urls)
  /\ submitted' = submitted + 1
  /\ UNCHANGED <<cfgvars, jobvars, urls, yielded, results, progress_calls,
                 mainpc, successful, failed, histvars, calls, convvars>>

\* variant: one thread per submitted job, no pool bound
PoolGuard_unbounded(j) ==
  /\ j <= submitted
  /\ \A i \in 1..(j-1) : pc[i] # "PENDING"

\* a pool thread takes the oldest queued work item; the executor never has
\* more than max_workers threads (line 143)
PoolGuard(j) ==
  /\ j <= submitted
  /\ \A i \in 1..(j-1) : pc[i] # "PENDING"
  /\ Cardinality(Busy) < max_workers

BatchStart(j) ==
  /\ PoolGuard(j)
  /\ RunnerStart(j)
  /\ UNCHANGED <<cfgvars, mainvars, histvars, calls, convvars>>

BatchFinish(j) ==
  /\ caller[j] = "batch"
  /\ RunnerFinish(j, JobStdouts)
  /\ UNCHANGED <<cfgvars, mainvars, histvars, calls, convvars>>

\* lines 157-168: future.result() or the failed result built from its exception
FutureResult(j) ==
  IF ret[j].kind = "return" THEN ret[j].value
  ELSE DownloadResult(FALSE, None, None, 0, ret[j].exc)

\* variant: the callback is handed the loop index i instead of i + 1
ProcessCompleted_zero_based(j) ==
  /\ mainpc = "running"
  /\ submitted = Len(urls)
  /\ pc[j] = "RETURNED"
  /\ \A k \in 1..Len(yielded) : yielded[k] # j
  /\ yielded' = Append(yielded, j)
  /\ progress_calls' = Append(progress_calls, <<Len(yielded), Len(urls)>>)
  /\ results' = Append(results, FutureResult(j))
  /\ UNCHANGED <<cfgvars, jobvars, urls, submitted, mainpc, successful,
                 failed, histvars, calls, convvars>>

\* lines 151-168: one iteration of the as_completed loop
ProcessCompleted(j) ==
  /\ mainpc = "running"
  /\ submitted = Len(urls)
  /\ pc[j] = "RETURNED"
  /\ \A k \in 1..Len(yielded) : yielded[k] # j
  /\ yielded' = Append(yielded, j)
  /\ progress_calls' = Append(progress_calls, <<Len(yielded) + 1, Len(urls)>>)
  /\ results' = Append(results, FutureResult(j))
  /\ UNCHANGED <<cfgvars, jobvars, urls, submitted, mainpc, successful,
                 failed, histvars, calls, convvars>>

\* variant: "return results" indented into the as_completed loop
ReturnResults_in_loop ==
  /\ mainpc = "running"
  /\ submitted = Len(urls)
  /\ Len(yielded) >= 1 \/ Len(urls) = 0
  /\ \A j \in Jobs : pc[j] = "RETURNED"
  /\ mainpc' = "returned"
  /\ UNCHANGED <<cfgvars, jobvars, urls, submitted, yielded, results,
                 progress_calls, successful, failed, histvars, calls, convvars>>

\* lines 169-170: the loop is exhausted, the executor is shut down
ReturnResults ==
  /\ mainpc = "running"
  /\ submitted = Len(urls)
  /\ Len(yielded) = Len(urls)
  /\ \A j \in Jobs : pc[j] = "RETURNED"
  /\ mainpc' = "returned"
  /\ UNCHANGED <<cfgvars, jobvars, urls, submitted, yielded, results,
                 progress_calls, successful, failed, histvars, calls, convvars>>

\* cli download_multiple lines 229-236: the counting loop and its break
Truthy(s) == s # None /\ s # ""

BreaksAt(k) ==
  ~results[k].success /\ ~continue_on_error /\ Truthy(results[k].error_message)

Counted ==
  { k \in 1..Len(results) : \A i \in 1..(k-1) : ~BreaksAt(i) }

CountResults ==
  /\ mainpc = "returned"
  /\ successful' = Cardinality({ k \in Counted : results[k].success })
  /\ failed' = Cardinality({ k \in Counted : ~results[k].success })
  /\ mainpc' = "summarised"
  /\ UNCHANGED <<cfgvars, jobvars, urls, submitted, yielded, results,
                 progress_calls, histvars, calls, convvars>>

\* ------------------------------------------------- the batch specification
\* config/defaults.py: history.max_history_entries
InitDefaultCap == max_history_entries = 10000

\* _get_base_config lines 38-56: the keys of base_config["extractor"] that
\* _prepare_config writes are not set in the base configuration (an absent
\* directory is the empty list here)
BaseConfig == [directory |-> <<>>, filename |-> None]

InitCommon ==
  /\ enable_history \in BOOLEAN
  /\ base_config = BaseConfig
  /\ config_files = <<>>
  /\ rows = {}
  /\ nextId = 1
  /\ now = 0
  /\ calls = <<>>
  /\ tmpfiles = {}
  /\ yielded = <<>>
  /\ results = <<>>
  /\ progress_calls = <<>>
  /\ successful = 0
  /\ failed = 0
  /\ submitted = 0

Init ==
  /\ InitDefaultCap
  /\ InitCommon
  /\ max_workers \in 1..MaxWorkers
  /\ continue_on_error \in BOOLEAN
  /\ input_urls \in SeqsUpTo(URLs, MaxUrls)
  /\ urls = <<>>
  /\ mainpc = "validating"
  /\ pc = <<>>
  /\ caller = <<>>
  /\ ginfo = <<>>
  /\ proc = <<>>
  /\ ret = <<>>
  /\ hctx = <<>>
  /\ add_calls = <<>>
  /\ store_raised = <<>>
  /\ auto_convert \in BOOLEAN
  /\ default_format = IF auto_convert THEN "pdf" ELSE "none"
  /\ delete_source_after_conversion = FALSE
  /\ options = <<>>
  /\ InitConv(0)

Next ==
  \/ CliValidate
  \/ Submit
  \/ \E j \in Jobs : BatchStart(j)
  \/ \E j \in Jobs : BatchFinish(j)
  \/ \E j \in Jobs : ProcessCompleted(j)
  \/ ReturnResults
  \/ CountResults

Spec == Init /\ [][Next]_vars

\* a batch run with --continue and the default history and conversion
\* settings
InitFair ==
  /\ Init
  /\ continue_on_error
  /\ enable_history
  /\ ~auto_convert

\* that batch with its threads scheduled: the main thread and every pool
\* thread keep taking steps, and every gallery-dl subprocess ends or runs
\* into the timeout of subprocess.run
SpecFair == InitFair /\ [][Next]_vars /\ WF_vars(Next)

\* ------------------------------------- concurrent single downloads (threads)
InitIdleBatch ==
  /\ max_workers = 1
  /\ continue_on_error = TRUE
  /\ input_urls = <<>>
  /\ urls = <<>>
  /\ mainpc = "idle"

InitSingle ==
  /\ InitDefaultCap
  /\ InitCommon
  /\ InitIdleBatch
  /\ \E n \in 1..MaxThreads :
       /\ pc = [j \in 1..n |-> "PENDING"]
       /\ caller \in [1..n -> {"gui", "cli"}]
       /\ ginfo \in [1..n -> Galleries]
       /\ proc = [j \in 1..n |-> NoProc]
       /\ ret = [j \in 1..n |-> NoOutcome]
       /\ hctx = [j \in 1..n |-> None]
       /\ add_calls = [j \in 1..n |-> 0]
       /\ store_raised = [j \in 1..n |-> FALSE]
       /\ options = [j \in 1..n |-> NoOptions]
       /\ InitConv(n)
  /\ InitNoConversion

NextSingle ==
  \/ \E j \in Jobs : SingleStart(j)
  \/ \E j \in Jobs : SingleFinish(j)
  \/ \E j \in Jobs : AddCheck(j)
  \/ \E j \in Jobs : AddGetId(j)
  \/ \E j \in Jobs : AddInsert(j)
  \/ \E j \in Jobs : AddFault(j)
  \/ \E j \in Jobs : CallerPost(j)

SpecSingle == InitSingle /\ [][NextSingle]_vars

\* ------------------------------------------ one download_gallery call alone
\* a store that already holds the row of an earlier download of "147838"
EarlierRow ==
  [id |-> 1, gallery_id |-> "147838", site |-> "hentaifox",
   download_path |-> DownloadDir, files_count |-> 1, downloaded_at |-> isoformat(1)]

InitRunner ==
  /\ InitDefaultCap
  /\ enable_history \in BOOLEAN
  /\ base_config = BaseConfig
  /\ config_files = <<>>
  /\ InitIdleBatch
  /\ \/ rows = {} /\ nextId = 1 /\ now = 0
     \/ rows = {EarlierRow} /\ nextId = 2 /\ now = 1
  /\ calls = <<>>
  /\ tmpfiles = {}
  /\ yielded = <<>>
  /\ results = <<>>
  /\ progress_calls = <<>>
  /\ successful = 0
  /\ failed = 0
  /\ submitted = 0
  /\ pc = <<"PENDING">>
  /\ caller = <<"cli">>
  /\ ginfo \in [{1} -> Galleries \cup {None}]
  /\ proc = <<NoProc>>
  /\ ret = <<NoOutcome>>
  /\ hctx = <<None>>
  /\ add_calls = <<0>>
  /\ store_raised = <<FALSE>>
  /\ options = <<NoOptions>>
  /\ InitConv(1)
  /\ InitNoConversion

RunnerFinishAny(j) ==
  /\ RunnerFinish(j, Stdouts)
  /\ UNCHANGED <<cfgvars, mainvars, histvars, calls, convvars>>

NextRunner ==
  \/ \E j \in Jobs : SingleStart(j)
  \/ \E j \in Jobs : RunnerFinishAny(j)
  \/ \E j \in Jobs : AddCheck(j)
  \/ \E j \in Jobs : AddGetId(j)
  \/ \E j \in Jobs : AddInsert(j)
  \/ \E j \in Jobs : AddFault(j)

SpecRunner == InitRunner /\ [][NextRunner]_vars

\* --------------------------------- a sequential client of the HistoryManager
Paths == {DownloadDir, "Downloads/HFox/other"}

FileCounts == {0, 49}

LogEntry(op, g, s, p, f, r) ==
  [op |-> op, gallery_id |-> g, site |-> s, download_path |-> p,
   files_count |-> f, ret |-> r]

\* variant: a call for a key that is in the store overwrites the stored path
\* and file count
HistAdd_update_existing(g, s, p, f) ==
  /\ Len(calls) < MaxOps
  /\ IF is_downloaded(g, s)
     THEN /\ \E id \in get_download_id(g, s) :
               calls' = Append(calls, LogEntry("add", g, s, p, f, id))
          /\ rows' = { IF r \in KeyRows(g, s)
                       THEN [r EXCEPT !.download_path = p, !.files_count = f]
                       ELSE r : r \in rows }
          /\ UNCHANGED <<nextId, now>>
     ELSE /\ \E t \in {now, now + 1} :
               /\ rows' = InsertRow(g, p, f, s, t)
               /\ now' = t
          /\ nextId' = nextId + 1
          /\ calls' = Append(calls, LogEntry("add", g, s, p, f, nextId))
  /\ UNCHANGED <<cfgvars, jobvars, mainvars, convvars>>

\* add_download lines 58-90 run to completion by one caller
HistAdd(g, s, p, f) ==
  /\ Len(calls) < MaxOps
  /\ IF is_downloaded(g, s)
     THEN /\ \E id \in get_download_id(g, s) :
               calls' = Append(calls, LogEntry("add", g, s, p, f, id))
          /\ UNCHANGED histvars
     ELSE /\ \E t \in {now, now + 1} :
               /\ rows' = InsertRow(g, p, f, s, t)
               /\ now' = t
          /\ nextId' = nextId + 1
          /\ calls' = Append(calls, LogEntry("add", g, s, p, f, nextId))
  /\ UNCHANGED <<cfgvars, jobvars, mainvars, convvars>>

\* clear_history lines 229-233
HistClear ==
  /\ Len(calls) < MaxOps
  /\ rows' = {}
  /\ calls' = Append(calls, LogEntry("clear", None, None, None, 0, NoId))
  /\ UNCHANGED <<cfgvars, jobvars, mainvars, nextId, now, convvars>>

\* variant: ORDER BY downloaded_at DESC, the newest rows go
HistCleanup_newest_first(max_entries) ==
  /\ Len(calls) < MaxOps
  /\ IF Cardinality(rows) > max_entries
     THEN \E D \in SUBSET rows :
            /\ Cardinality(D) = Cardinality(rows) - max_entries
            /\ \A d \in D : \A r \in rows \ D :
                 text_le(r.downloaded_at, d.downloaded_at)
            /\ rows' = rows \ D
     ELSE UNCHANGED rows
  /\ calls' = Append(calls, LogEntry("cleanup", None, None, None, max_entries, NoId))
  /\ UNCHANGED <<cfgvars, jobvars, mainvars, nextId, now, convvars>>

\* cleanup_old_entries lines 207-227: the entries_to_delete oldest rows go
\* (ORDER BY downloaded_at ASC LIMIT ?: any choice among equal timestamps)
HistCleanup(max_entries) ==
  /\ Len(calls) < MaxOps
  /\ IF Cardinality(rows) > max_entries
     THEN \E D \in SUBSET rows :
            /\ Cardinality(D) = Cardinality(rows) - max_entries
            /\ \A d \in D : \A r \in rows \ D :
                 text_le(d.downloaded_at, r.downloaded_at)
            /\ rows' = rows \ D
     ELSE UNCHANGED rows
  /\ calls' = Append(calls, LogEntry("cleanup", None, None, None, max_entries, NoId))
  /\ UNCHANGED <<cfgvars, jobvars, mainvars, nextId, now, convvars>>

\* retention caps small enough to be reached by the sequential client
HistoryCaps == 1..2

InitHistory ==
  /\ max_history_entries \in HistoryCaps
  /\ InitCommon
  /\ InitIdleBatch
  /\ pc = <<>>
  /\ caller = <<>>
  /\ ginfo = <<>>
  /\ proc = <<>>
  /\ ret = <<>>
  /\ hctx = <<>>
  /\ add_calls = <<>>
  /\ store_raised = <<>>
  /\ options = <<>>
  /\ InitConv(0)
  /\ InitNoConversion

NextHistory ==
  \/ \E g \in Galleries, s \in Sites, p \in Paths, f \in FileCounts :
       HistAdd(g, s, p, f)
  \/ HistClear
  \/ \E m \in {0, 1, max_history_entries} : HistCleanup(m)

SpecHistory == InitHistory /\ [][NextHistory]_vars

\* ------------------------- one single download with its chained conversion
\* --convert values of the cli command (any string) and the entries of the
\* gui's format box
CliFormats == {None, "pdf", "PDF", "cbz", "epub"}

GuiFormats == {None, "pdf", "cbz"}

InitChain ==
  /\ InitDefaultCap
  /\ InitCommon
  /\ InitIdleBatch
  /\ auto_convert \in BOOLEAN
  /\ default_format \in {"none", "pdf", "cbz"}
  /\ delete_source_after_conversion \in BOOLEAN
  /\ pc = <<"PENDING">>
  /\ caller \in [{1} -> {"cli", "gui"}]
  /\ ginfo = <<"147838">>
  /\ proc = <<NoProc>>
  /\ ret = <<NoOutcome>>
  /\ hctx = <<None>>
  /\ add_calls = <<0>>
  /\ store_raised = <<FALSE>>
  /\ \E f \in (IF caller[1] = "cli" THEN CliFormats ELSE GuiFormats),
        d \in BOOLEAN :
       options = <<[convert_to |-> f, delete_images |-> d, output |-> None]>>
  /\ InitConv(1)

NextChain ==
  \/ \E j \in Jobs : SingleStart(j)
  \/ \E j \in Jobs : SingleFinish(j)
  \/ \E j \in Jobs : CallerPost(j)
  \/ \E j \in Jobs : ConvScan(j)
  \/ \E j \in Jobs : ConvImage(j)
  \/ \E j \in Jobs : ConvSave(j)
  \/ \E j \in Jobs : ConvClose(j)
  \/ \E j \in Jobs : ConvDelete(j)
  \/ \E j \in Jobs : AddCheck(j)
  \/ \E j \in Jobs : AddGetId(j)
  \/ \E j \in Jobs : AddInsert(j)
  \/ \E j \in Jobs : AddFault(j)

SpecChain == InitChain /\ [][NextChain]_vars

\* --------------------------------------- the convert command on a directory
\* a directory whose only image has a name that starts with SUPERSCRIPT TWO
SuperscriptDir == { File(<<SuperscriptTwo, "1", ".", "p", "n", "g">>, "ok") }

\* --format values of the convert command
ConvertFormats == {"pdf", "cbz", "CBZ", "epub"}

\* --output of the convert command: not given, or a path in another directory
OutputOptions == {None, "elsewhere/out"}

InitConvert ==
  /\ InitDefaultCap
  /\ InitCommon
  /\ enable_history = TRUE
  /\ InitIdleBatch
  /\ InitNoConversion
  /\ pc = <<"PENDING">>
  /\ caller = <<"convert">>
  /\ ginfo = <<None>>
  /\ proc = <<NoProc>>
  /\ ret = <<NoOutcome>>
  /\ hctx = <<None>>
  /\ add_calls = <<0>>
  /\ store_raised = <<FALSE>>
  /\ \E f \in ConvertFormats, d \in BOOLEAN, o \in OutputOptions :
       options = <<[convert_to |-> f, delete_images |-> d, output |-> o]>>
  /\ \E files \in Dirs \cup {SuperscriptDir} : disk = <<Disk(files)>>
  /\ conv = <<NoConv>>
  /\ conv_calls = <<0>>
  /\ shown = <<NoShown>>

NextConvert ==
  \/ \E j \in Jobs : ConvertCmd(j)
  \/ \E j \in Jobs : ConvScan(j)
  \/ \E j \in Jobs : ConvImage(j)
  \/ \E j \in Jobs : ConvSave(j)
  \/ \E j \in Jobs : ConvClose(j)
  \/ \E j \in Jobs : ConvDelete(j)

SpecConvert == InitConvert /\ [][NextConvert]_vars

\* ------------------------------------------- get_image_files on a directory
\* entries a listed directory may hold: img1.png, img2.png, img10.png,
\* IMG3.PNG, 02.png, 2.PNG, notes.txt, a file whose name starts with
\* SUPERSCRIPT TWO, and a subdirectory named old.png
ListEntries ==
  { File(<<"i", "m", "g", "1", ".", "p", "n", "g">>, "ok"),
    File(<<"i", "m", "g", "2", ".", "p", "n", "g">>, "ok"),
    File(<<"i", "m", "g", "1", "0", ".", "p", "n", "g">>, "ok"),
    File(<<"I", "M", "G", "3", ".", "P", "N", "G">>, "ok"),
    File(<<"0", "2", ".", "p", "n", "g">>, "ok"),
    File(<<"2", ".", "P", "N", "G">>, "ok"),
    File(<<"n", "o", "t", "e", "s", ".", "t", "x", "t">>, "ok"),
    File(<<SuperscriptTwo, "1", ".", "p", "n", "g">>, "ok"),
    File(<<"o", "l", "d", ".", "p", "n", "g">>, "directory") }

ListDirs == { S \in SUBSET ListEntries : Cardinality(S) <= MaxImages }

InitList ==
  /\ InitDefaultCap
  /\ InitCommon
  /\ enable_history = TRUE
  /\ InitIdleBatch
  /\ InitNoConversion
  /\ pc = <<"PENDING">>
  /\ caller = <<"list">>
  /\ ginfo = <<None>>
  /\ proc = <<NoProc>>
  /\ ret = <<NoOutcome>>
  /\ hctx = <<None>>
  /\ add_calls = <<0>>
  /\ store_raised = <<FALSE>>
  /\ options = <<NoOptions>>
  /\ \/ disk = <<NoDisk>>
     \/ \E files \in ListDirs : disk = <<Disk(files)>>
  /\ conv = <<NoConv>>
  /\ conv_calls = <<0>>
  /\ shown = <<NoShown>>

\* converter.py lines 31-42: one call of get_image_files; the list it
\* returns is kept in conv[j].image_files, an exception in ret[j]
ListImages(j) ==
  /\ caller[j] = "list"
  /\ pc[j] = "PENDING"
  /\ IF ~disk[j].exists
     THEN /\ conv' = [conv EXCEPT ![j].image_files = <<>>]
          /\ UNCHANGED ret
     ELSE IF get_image_files_raises(disk[j].files)
     THEN /\ ret' = [ret EXCEPT ![j] = Raised("ValueError")]
          /\ UNCHANGED conv
     ELSE /\ \E l \in get_image_files(disk[j].files) :
               conv' = [conv EXCEPT ![j].image_files = l]
          /\ UNCHANGED ret
  /\ pc' = [pc EXCEPT ![j] = "FINISHED"]
  /\ UNCHANGED <<cfgvars, caller, ginfo, proc, tmpfiles, hctx, add_calls,
                 store_raised, mainvars, histvars, calls, disk, conv_calls,
                 shown>>

NextList == \E j \in Jobs : ListImages(j)

SpecList == InitList /\ [][NextList]_vars

\* ------------------- _prepare_config in threads that share one runner object
\* the titles of the two galleries: "A: b " and "C?"
Title(g) ==
  IF g = "147838" THEN <<"A", ":", " ", "b", " ">> ELSE <<"C", "?">>

InvalidChars == {"<", ">", ":", "\"", "/", "\\", "|", "?", "*"}

\* str.strip()
RECURSIVE strip(_)
strip(text) ==
  IF text = <<>> THEN <<>>
  ELSE IF Head(text) = " " THEN strip(Tail(text))
  ELSE IF text[Len(text)] = " " THEN strip(SubSeq(text, 1, Len(text) - 1))
  ELSE text

\* downloader.py lines 189-200
_sanitize_filename(filename) ==
  LET replaced == [k \in 1..Len(filename) |->
                     IF filename[k] \in InvalidChars THEN "_" ELSE filename[k]]
      capped == IF Len(replaced) > 200
                THEN SubSeq(replaced, 1, 200) \o <<".", ".", ".">>
                ELSE replaced
  IN strip(capped)

\* lines 176-182: the directory entry _prepare_config sets for a job
DirectoryFor(gallery_info) ==
  IF gallery_info # None THEN <<_sanitize_filename(Title(gallery_info))>>
  ELSE << <<"{title}">> >>

\* what no step of _prepare_config and json.dump changes
cfgframe == <<enable_history, max_workers, continue_on_error, input_urls,
              auto_convert, default_format, delete_source_after_conversion,
              options, max_history_entries, caller, ginfo, proc, ret, tmpfiles, hctx, add_calls,
              store_raised, mainvars, histvars, calls, convvars>>

\* lines 174-182: config_data = self.base_config.copy() is a shallow copy,
\* config_data["extractor"] is the dict of base_config; the directory entry
\* is stored into it
SetDirectory(j) ==
  /\ caller[j] = "runner"
  /\ pc[j] = "PENDING"
  /\ base_config' = [base_config EXCEPT !.directory = DirectoryFor(ginfo[j])]
  /\ pc' = [pc EXCEPT ![j] = "cfg_filename"]
  /\ UNCHANGED <<config_files, cfgframe>>

\* line 185
SetFilename(j) ==
  /\ pc[j] = "cfg_filename"
  /\ base_config' = [base_config EXCEPT !.filename = "{filename}.{extension}"]
  /\ pc' = [pc EXCEPT ![j] = "cfg_dump"]
  /\ UNCHANGED <<config_files, cfgframe>>

\* line 68: json.dump(config_data, f) writes what the shared dict holds now
DumpConfig(j) ==
  /\ pc[j] = "cfg_dump"
  /\ config_files' = [config_files EXCEPT ![j] = base_config]
  /\ pc' = [pc EXCEPT ![j] = "cfg_written"]
  /\ UNCHANGED <<base_config, cfgframe>>

InitConfig ==
  /\ InitDefaultCap
  /\ enable_history = TRUE
  /\ base_config = BaseConfig
  /\ rows = {}
  /\ nextId = 1
  /\ now = 0
  /\ calls = <<>>
  /\ tmpfiles = {}
  /\ yielded = <<>>
  /\ results = <<>>
  /\ progress_calls = <<>>
  /\ successful = 0
  /\ failed = 0
  /\ submitted = 0
  /\ InitIdleBatch
  /\ InitNoConversion
  /\ \E n \in 1..MaxThreads :
       /\ pc = [j \in 1..n |-> "PENDING"]
       /\ caller = [j \in 1..n |-> "runner"]
       /\ ginfo \in [1..n -> Galleries \cup {None}]
       /\ proc = [j \in 1..n |-> NoProc]
       /\ ret = [j \in 1..n |-> NoOutcome]
       /\ hctx = [j \in 1..n |-> None]
       /\ add_calls = [j \in 1..n |-> 0]
       /\ store_raised = [j \in 1..n |-> FALSE]
       /\ options = [j \in 1..n |-> NoOptions]
       /\ config_files = [j \in 1..n |-> BaseConfig]
       /\ InitConv(n)

NextConfig ==
  \/ \E j \in Jobs : SetDirectory(j)
  \/ \E j \in Jobs : SetFilename(j)
  \/ \E j \in Jobs : DumpConfig(j)

SpecConfig == InitConfig /\ [][NextConfig]_vars

\* ============================================================ properties
BatchReturned == mainpc \in {"returned", "summarised"}

TimesYielded(j) == Cardinality({ k \in 1..Len(yielded) : yielded[k] = j })

\* C1: when download_multiple has returned, the results list holds exactly
\* one DownloadResult per submitted URL (N results for N URLs, duplicates and
\* failures included).
C1_ResultCount ==
  BatchReturned =>
    /\ Len(results) = Len(urls)
    /\ \A j \in Jobs : TimesYielded(j) = 1

\* a returned batch of two equal URLs, one job failed and one succeeded
C1_Witness ==
  /\ BatchReturned
  /\ Len(urls) = 2
  /\ urls[1] = urls[2]
  /\ \E a, b \in 1..Len(results) : results[a].success /\ ~results[b].success

\* the result a job's own subprocess outcome calls for
IsOwnResult(j, r) ==
  /\ proc[j].kind = "timeout" =>
       ~r.success /\ r.error_message = "Download timed out"
  /\ proc[j].kind = "nonzero" =>
       ~r.success /\ r.error_message = proc[j].stderr
  /\ proc[j].kind = "notfound" =>
       ~r.success /\ r.error_message = "FileNotFoundError"
  /\ proc[j].kind = "none" =>
       ~r.success /\ r.error_message = "OSError"
  /\ proc[j].kind = "exit0" =>
       /\ r.success
       /\ r.files_downloaded = _count_downloaded_files(proc[j].stdout)

\* C2: every result in the list is the one its own job's outcome calls for,
\* whatever happened to the other jobs: a job that raised, exited non-zero or
\* timed out is a failed result carrying its error text, and once the batch
\* has returned every job has its result in the list.
C2_FaultIsolation ==
  /\ \A k \in 1..Len(results) : IsOwnResult(yielded[k], results[k])
  /\ BatchReturned => \A j \in Jobs : \E k \in 1..Len(results) : yielded[k] = j

\* a returned batch where one job timed out and another one succeeded
C2_Witness ==
  /\ BatchReturned
  /\ \E i, j \in Jobs :
       /\ proc[i].kind = "timeout"
       /\ proc[j].kind = "exit0"
       /\ \E k \in 1..Len(results) : yielded[k] = j /\ results[k].success

Running == { j \in Jobs : pc[j] = "RUNNING" }

\* C5: the number of jobs whose subprocess is running never exceeds
\* download.max_parallel_galleries.
C5_PoolBound == Cardinality(Running) <= max_workers

\* the pool is full while a submitted job is still waiting
C5_Witness ==
  /\ Cardinality(Running) = max_workers
  /\ \E j \in Jobs : j <= submitted /\ pc[j] = "PENDING"

FailureObserved == \E k \in 1..Len(results) : ~results[k].success

\* C6: in stop-on-error mode, once a failed result has been observed by the
\* orchestrator, no job that is still queued is started.
C6_StopOnError ==
  [][ (~continue_on_error /\ FailureObserved) =>
        \A j \in Jobs : pc[j] = "PENDING" => pc'[j] = "PENDING" ]_vars

\* C10: when a batch with history tracking enabled has returned, the gallery
\* of every successful result is in the history store.
C10_BatchRecorded ==
  (BatchReturned /\ enable_history) =>
    \A k \in 1..Len(results) :
      (results[k].success /\ GalleryOf(urls[yielded[k]]) # None) =>
        is_downloaded(GalleryOf(urls[yielded[k]]), "hentaifox")

\* C11: every URL given to the batch command contributes one entry to the
\* result list: only URLs accepted by is_valid_url are dispatched, and a
\* returned batch holds one result per input URL, a failed one for each URL
\* that is_valid_url rejected.
C11_InvalidUrlReported ==
  /\ \A j \in Jobs : is_valid_url(urls[j])
  /\ BatchReturned =>
       /\ Len(results) = Len(input_urls)
       /\ Cardinality({ k \in 1..Len(results) : ~results[k].success }) >=
            Cardinality({ i \in 1..Len(input_urls) : ~is_valid_url(input_urls[i]) })

\* C12: the progress callback is called once per completed job: the k-th
\* call carries (k, N) for the N URLs handed to download_multiple, it is made
\* for a job that has returned, there are never more calls than returned
\* jobs, and a returned batch has made exactly N calls.
C12_ProgressCallbacks ==
  /\ Len(progress_calls) = Len(yielded)
  /\ \A k \in 1..Len(progress_calls) :
       /\ progress_calls[k] = <<k, Len(urls)>>
       /\ pc[yielded[k]] = "RETURNED"
  /\ Len(progress_calls) <= Cardinality({ j \in Jobs : pc[j] = "RETURNED" })
  /\ BatchReturned => Len(progress_calls) = Len(urls)

\* a returned batch whose jobs completed in another order than submitted
C12_Witness ==
  /\ BatchReturned
  /\ Len(urls) = MaxUrls
  /\ Len(progress_calls) = MaxUrls
  /\ yielded[1] # 1

\* C13: with --continue, every submitted job eventually returns and the
\* batch eventually returns, whatever the earlier jobs did; a returned job is
\* a failure exactly when its own subprocess did not exit with code 0 (a
\* timeout fails that job only).
C13_AllJobsTerminate ==
  /\ \A j \in 1..MaxUrls :
       (continue_on_error /\ j <= submitted) ~> (j \in Jobs /\ pc[j] = "RETURNED")
  /\ (continue_on_error /\ mainpc = "running") ~> BatchReturned
  /\ [](\A j \in Jobs :
          pc[j] = "RETURNED" =>
            /\ ret[j].kind = "return"
            /\ ret[j].value.success <=> proc[j].kind = "exit0")

\* with --continue, the first job timed out and the job submitted after it
\* succeeded, and the batch has returned both results
C13_Witness ==
  /\ continue_on_error
  /\ BatchReturned
  /\ Len(results) = 2
  /\ proc[1].kind = "timeout"
  /\ proc[2].kind = "exit0"
  /\ ret[2].value.success
  /\ max_workers = 1

\* C3: whatever the interleaving of concurrent add_download calls for one
\* (gallery_id, site) key, the store never holds more than one row for it.
C3_OneRowPerKey ==
  \A g \in Galleries : Cardinality(KeyRows(g, "hentaifox")) <= 1

SameKey(a, b) == a.gallery_id = b.gallery_id /\ a.site = b.site

\* C4: two add_download calls in a row for the same (gallery_id, site) return
\* the same id, and after any add_download call the store holds exactly one
\* row for the key of the call (so exists is true after the first call).
C4_IdempotentRecord ==
  /\ \A i \in 1..(Len(calls) - 1) :
       (calls[i].op = "add" /\ calls[i+1].op = "add" /\ SameKey(calls[i], calls[i+1]))
         => calls[i+1].ret = calls[i].ret
  /\ (Len(calls) > 0 /\ calls[Len(calls)].op = "add") =>
       /\ Cardinality(KeyRows(calls[Len(calls)].gallery_id, calls[Len(calls)].site)) = 1
       /\ is_downloaded(calls[Len(calls)].gallery_id, calls[Len(calls)].site)
       /\ calls[Len(calls)].ret # NoId

\* two calls in a row for one key with another path and another file count
C4_Witness ==
  \E i \in 1..(Len(calls) - 1) :
    /\ i + 1 = Len(calls)
    /\ calls[i].op = "add" /\ calls[i+1].op = "add"
    /\ SameKey(calls[i], calls[i+1])
    /\ calls[i].download_path # calls[i+1].download_path
    /\ calls[i].files_count # calls[i+1].files_count
    /\ Cardinality(KeyRows(calls[i].gallery_id, calls[i].site)) = 1

HasPathLine(output) ==
  \E i \in 1..Len(output) : output[i].downloads /\ output[i].ext

\* C7: download_gallery never raises: tool-not-found, a non-zero exit and a
\* timeout each come back as a failed result with the error text, and exit
\* code 0 with no file-path line in the output comes back as a result with
\* files_downloaded = 0.
C7_NeverRaises ==
  \A j \in Jobs :
    /\ ret[j].kind # "raise"
    /\ pc[j] = "RETURNED" =>
         /\ ret[j].kind = "return"
         /\ proc[j].kind = "notfound" =>
              /\ ~ret[j].value.success
              /\ ret[j].value.error_message = "FileNotFoundError"
         /\ proc[j].kind = "nonzero" =>
              /\ ~ret[j].value.success
              /\ ret[j].value.error_message = proc[j].stderr
         /\ proc[j].kind = "timeout" =>
              /\ ~ret[j].value.success
              /\ ret[j].value.error_message = "Download timed out"
         /\ (proc[j].kind = "exit0" /\ ~HasPathLine(proc[j].stdout)) =>
              /\ ret[j].value.success
              /\ ret[j].value.files_downloaded = 0

\* exit code 0 with lines on stdout, none of them a file path
C7_Witness ==
  \E j \in Jobs :
    /\ pc[j] = "RETURNED"
    /\ proc[j].kind = "exit0"
    /\ Len(proc[j].stdout) = MaxLines
    /\ ~HasPathLine(proc[j].stdout)
    /\ ret[j].value.files_downloaded = 0

\* C8: a job that exited with code 0 and whose recording in the history store
\* raised still returns success=True with its download path and file count.
C8_HistoryFaultTolerated ==
  \A j \in Jobs :
    (/\ ret[j].kind = "return"
     /\ proc[j].kind = "exit0"
     /\ store_raised[j]
     /\ hctx[j] = "runner")
      => /\ ret[j].value.success
         /\ ret[j].value.download_path = _extract_download_path(proc[j].stdout)
         /\ ret[j].value.files_downloaded = _count_downloaded_files(proc[j].stdout)

\* C9: after a successful job, add_download has been called for it exactly
\* when history tracking is enabled and gallery metadata is known, and then
\* the gallery is in the store; with history tracking disabled no row is
\* ever added.
C9_RecordIffEnabled ==
  /\ \A j \in Jobs :
       (pc[j] = "FINISHED" /\ ret[j].kind = "return" /\ ret[j].value.success) =>
         /\ (add_calls[j] > 0) <=> (enable_history /\ ginfo[j] # None)
         /\ (enable_history /\ ginfo[j] # None) => is_downloaded(ginfo[j], "hentaifox")
  /\ ~enable_history => rows = {}

\* C14: a failed chained conversion leaves the download outcome alone: once
\* the converter has returned, the download is reported as completed and the
\* caller ends with exit code 0 / download_complete whether or not the
\* conversion succeeded, and the conversion is reported on its own as
\* converted or failed; the final report follows the download result only.
C14_ConversionFailureIsolated ==
  \A j \in Jobs :
    /\ conv[j].returned =>
         /\ ret[j].value.success
         /\ shown[j].download = "completed"
         /\ shown[j].final \in {"exit0", "download_complete"}
         /\ (shown[j].conversion = "converted") <=> conv[j].result.success
         /\ (shown[j].conversion = "failed") <=> ~conv[j].result.success
    /\ pc[j] = "FINISHED" =>
         (shown[j].final \in {"exit0", "download_complete"}) <=> ret[j].value.success

\* the cli finished with exit code 0 after a conversion that failed because
\* no image could be processed
C14_Witness ==
  \E j \in Jobs :
    /\ pc[j] = "FINISHED"
    /\ caller[j] = "cli"
    /\ ret[j].value.success
    /\ conv[j].returned
    /\ ~conv[j].result.success
    /\ conv[j].result.error_message = "No images could be processed"
    /\ shown[j].final = "exit0"

\* C15: once a batch is summarised, the converter has been called exactly
\* once for every successful result with a download path when automatic
\* conversion to pdf or cbz is configured, and never for a failed result.
C15_ConvertedOnce ==
  mainpc = "summarised" =>
    \A k \in 1..Len(results) :
      /\ (/\ results[k].success
          /\ results[k].download_path # None
          /\ auto_convert
          /\ default_format \in {"pdf", "cbz"}) => conv_calls[yielded[k]] = 1
      /\ ~results[k].success => conv_calls[yielded[k]] = 0

\* C16: a cli download that names a conversion format other than pdf or cbz
\* is rejected before any work: no temp config is written, no subprocess is
\* started, the converter is not called, and the command ends with exit 1.
C16_UnsupportedFormatRejected ==
  \A j \in Jobs :
    (/\ caller[j] = "cli"
     /\ options[j].convert_to # None
     /\ lower_format(options[j].convert_to) \notin {"pdf", "cbz"}) =>
       /\ proc[j].kind = "none"
       /\ j \notin tmpfiles
       /\ conv_calls[j] = 0
       /\ pc[j] = "FINISHED" => shown[j].final = "exit1"

IsPdf(j) == lower_format(conv[j].format_type) = "pdf"

IsCbz(j) == lower_format(conv[j].format_type) = "cbz"

\* C17: a conversion that returned success wrote at least one image to the
\* archive; a directory without image files gives success=False,
\* input_files_count=0 and an error message; every failure carries an error
\* message.
C17_SuccessNeedsWrittenImage ==
  \A j \in Jobs :
    conv[j].returned =>
      /\ conv[j].result.success => Len(disk[j].archive.entries) >= 1
      /\ conv[j].image_files = <<>> =>
           /\ ~conv[j].result.success
           /\ conv[j].result.input_files_count = 0
      /\ ~conv[j].result.success => conv[j].result.error_message # None

\* the image files a CBZ conversion could read, in the order of image_files
WrittenImages(j) ==
  SelectSeq(conv[j].image_files, LAMBDA f : f.status # "unreadable")

\* C18: after a successful CBZ conversion the i-th archive entry holds the
\* i-th written image and is named by the three-digit number i followed by
\* the lowered suffix of that image: 001.<ext>, 002.<ext>, ... without a gap.
C18_CbzSequentialNames ==
  \A j \in Jobs :
    (IsCbz(j) /\ conv[j].returned /\ conv[j].result.success) =>
      /\ Len(disk[j].archive.entries) = Len(WrittenImages(j))
      /\ \A i \in 1..Len(disk[j].archive.entries) :
           LET e == disk[j].archive.entries[i] IN
             /\ e.src = WrittenImages(j)[i].name
             /\ suffix(e.name) = lower(suffix(e.src))
             /\ Len(e.name) = 3 + Len(suffix(e.name))
             /\ int(SubSeq(e.name, 1, 3)) = i

\* the names of the image files PIL could decode
Survivors(j) ==
  { conv[j].image_files[k].name : k \in { m \in 1..Len(conv[j].image_files) :
                                            conv[j].image_files[m].status = "ok" } }

\* pages are the surviving images, each once, in natural order
PagesAreSurvivors(j) ==
  LET e == disk[j].archive.entries IN
    /\ { e[k].src : k \in 1..Len(e) } = Survivors(j)
    /\ Len(e) = Cardinality(Survivors(j))
    /\ \A a, b \in 1..Len(e) :
         a < b => ~key_less(_natural_sort_key(e[b].src),
                            _natural_sort_key(e[a].src), 1)

NoFilesRemain(d) == d.files = {} /\ ~(d.archive.exists /\ d.archive.inside)

Runs(name) == re_split(name, << <<>> >>)

\* two names agree on their first k-1 runs: digit runs by value, the others
\* without regard to case
SameRunsBefore(x, y, k) ==
  /\ k <= Len(Runs(x)) /\ k <= Len(Runs(y))
  /\ \A m \in 1..(k-1) :
       IF m % 2 = 0 THEN int(Runs(x)[m]) = int(Runs(y)[m])
       ELSE lower(Runs(x)[m]) = lower(Runs(y)[m])

\* x comes before y in natural order: at the first run where they differ x
\* has the smaller number or the smaller lowered text, or x ends there
NaturallyBefore(x, y) ==
  \/ \E k \in 1..Len(Runs(x)) :
       /\ SameRunsBefore(x, y, k)
       /\ IF k % 2 = 0 THEN int(Runs(x)[k]) < int(Runs(y)[k])
          ELSE str_less(lower(Runs(x)[k]), lower(Runs(y)[k]))
  \/ /\ Len(Runs(x)) < Len(Runs(y))
     /\ SameRunsBefore(x, y, Len(Runs(x)) + 1)

\* C21: get_image_files returns a list for every directory: it holds exactly
\* the files of the directory whose lowered extension is supported, each
\* once, and a name that is before another one in natural order (smaller
\* number in the first differing digit run, smaller lowered text in the
\* first differing other run) stands before it in the list.
C21_NaturalOrder ==
  \A j \in Jobs :
    (caller[j] = "list" /\ pc[j] = "FINISHED") =>
      LET l == conv[j].image_files
          wanted == { f \in disk[j].files :
                        /\ f.status # "directory"
                        /\ lower(suffix(f.name)) \in supported_formats }
      IN /\ ret[j].kind # "raise"
         /\ { l[k] : k \in 1..Len(l) } = wanted
         /\ Len(l) = Cardinality(wanted)
         /\ \A a, b \in 1..Len(l) :
              NaturallyBefore(l[a].name, l[b].name) => a < b

\* whenever get_image_files returns, its list is as C21 says
ListedInNaturalOrder ==
  \A j \in Jobs :
    (caller[j] = "list" /\ pc[j] = "FINISHED" /\ ret[j].kind # "raise") =>
      LET l == conv[j].image_files
          wanted == { f \in disk[j].files :
                        /\ f.status # "directory"
                        /\ lower(suffix(f.name)) \in supported_formats }
      IN /\ { l[k] : k \in 1..Len(l) } = wanted
         /\ Len(l) = Cardinality(wanted)
         /\ \A a, b \in 1..Len(l) :
              NaturallyBefore(l[a].name, l[b].name) => a < b

\* img1.png, img2.png and img10.png were listed in this order
ListedThree ==
  \E j \in Jobs :
    /\ caller[j] = "list" /\ pc[j] = "FINISHED"
    /\ Len(conv[j].image_files) = 3
    /\ conv[j].image_files[1].name = <<"i", "m", "g", "1", ".", "p", "n", "g">>
    /\ conv[j].image_files[2].name = <<"i", "m", "g", "2", ".", "p", "n", "g">>
    /\ conv[j].image_files[3].name = <<"i", "m", "g", "1", "0", ".", "p", "n", "g">>

\* the clock reading a stored downloaded_at text stands for
fromisoformat(text) ==
  2 * int(SubSeq(text, 1, 2)) + (IF Len(text) > 2 THEN 1 ELSE 0)

\* C22: a cleanup_old_entries(max_entries) call leaves at most max_entries
\* rows, adds none, deletes exactly the surplus, deletes nothing when the
\* store holds max_entries rows or fewer, and every row it deletes was
\* downloaded no later than every row it keeps.
C22_TrimOldestFirst ==
  [][ (calls' # calls /\ calls'[Len(calls')].op = "cleanup") =>
        LET max_entries == calls'[Len(calls')].files_count IN
          /\ Cardinality(rows') <= max_entries
          /\ rows' \subseteq rows
          /\ Cardinality(rows) <= max_entries => rows' = rows
          /\ Cardinality(rows) > max_entries => Cardinality(rows') = max_entries
          /\ \A d \in rows \ rows' : \A r \in rows' :
               fromisoformat(d.downloaded_at) <= fromisoformat(r.downloaded_at)
    ]_vars

\* two galleries were recorded and a cleanup down to one row kept the one
\* recorded last, half a second after the clock started
C22_Witness ==
  /\ Len(calls) = 3
  /\ calls[1].op = "add" /\ calls[2].op = "add" /\ calls[3].op = "cleanup"
  /\ calls[1].ret # calls[2].ret
  /\ calls[3].files_count = 1
  /\ now = 1
  /\ \E r \in rows : rows = {r} /\ r.id = calls[2].ret
                       /\ r.downloaded_at = isoformat(1)

\* C23: no history operation changes a stored row: a row with the id of an
\* earlier row is that row, field by field; add_download for a key that is
\* in the store leaves the table as it is; and a row leaves the table only
\* in a clear_history or cleanup_old_entries step.
C23_RowsImmutable ==
  [][ /\ \A r \in rows : \A q \in rows' : q.id = r.id => q = r
      /\ (/\ calls' # calls
          /\ calls'[Len(calls')].op = "add"
          /\ is_downloaded(calls'[Len(calls')].gallery_id,
                           calls'[Len(calls')].site)) => rows' = rows
      /\ ~(rows \subseteq rows') =>
           /\ calls' # calls
           /\ calls'[Len(calls')].op \in {"clear", "cleanup"}
    ]_vars

\* a gallery was recorded, then recorded again with another path and file
\* count, and the stored row still carries the first path and count
C23_Witness ==
  /\ Len(calls) >= 2
  /\ calls[1].op = "add" /\ calls[2].op = "add"
  /\ SameKey(calls[1], calls[2])
  /\ calls[1].download_path # calls[2].download_path
  /\ calls[1].files_count # calls[2].files_count
  /\ \E r \in rows :
       /\ r.id = calls[1].ret
       /\ r.download_path = calls[1].download_path
       /\ r.files_count = calls[1].files_count

\* C24: the summary of a batch accounts for every dispatched URL, with
\* --continue and with --stop-on-error: successful + failed is the number of
\* URLs handed to download_multiple, and the two counters are the numbers of
\* successful and failed results.
C24_SummaryAccountsForAll ==
  mainpc = "summarised" =>
    /\ successful + failed = Len(urls)
    /\ successful = Cardinality({ k \in 1..Len(results) : results[k].success })
    /\ failed = Cardinality({ k \in 1..Len(results) : ~results[k].success })

\* with --continue the summary accounts for every dispatched URL
SummaryCompleteWhenContinuing ==
  (mainpc = "summarised" /\ continue_on_error) =>
    /\ successful + failed = Len(urls)
    /\ successful = Cardinality({ k \in 1..Len(results) : results[k].success })

\* the state of a job: PENDING until download_gallery is entered, RUNNING
\* until it returns, then SUCCEEDED, TIMED_OUT or FAILED by its result
JobState(j) ==
  IF ret[j].kind = "return"
  THEN IF ret[j].value.success THEN "SUCCEEDED"
       ELSE IF ret[j].value.error_message = "Download timed out" THEN "TIMED_OUT"
       ELSE "FAILED"
  ELSE IF pc[j] = "PENDING" THEN "PENDING" ELSE "RUNNING"

\* C25: a job only moves PENDING -> RUNNING -> {SUCCEEDED, FAILED,
\* TIMED_OUT}: a terminal state and its result are never left, SUCCEEDED and
\* TIMED_OUT are entered from RUNNING only (a job whose subprocess could not
\* be started fails in the step that enters download_gallery), and the
\* subprocess is started at most once: it starts from PENDING only, what it
\* did is set once, and no job goes back to PENDING.
C25_JobStateMachine ==
  [][ \A j \in Jobs :
        /\ JobState(j)' # JobState(j) =>
             \/ JobState(j) = "PENDING" /\ JobState(j)' \in {"RUNNING", "FAILED"}
             \/ JobState(j) = "RUNNING"
                  /\ JobState(j)' \in {"SUCCEEDED", "FAILED", "TIMED_OUT"}
        /\ ret[j].kind = "return" => ret'[j] = ret[j]
        /\ pc'[j] = "PENDING" => pc[j] = "PENDING"
        /\ (pc'[j] = "RUNNING" /\ pc[j] # "RUNNING") =>
             pc[j] = "PENDING" /\ proc[j].kind = "none"
        /\ proc[j].kind # "none" => proc'[j] = proc[j]
        /\ JobState(j)' = "TIMED_OUT" <=> proc'[j].kind = "timeout"
    ]_vars

\* a job succeeded after its subprocess had exited with code 0 and its
\* download had been recorded in the history store
C25_Witness ==
  \E j \in Jobs :
    /\ JobState(j) = "SUCCEEDED"
    /\ proc[j].kind = "exit0"
    /\ Len(proc[j].stdout) = MaxLines
    /\ add_calls[j] = 1
    /\ is_downloaded(ginfo[j], "hentaifox")

\* of two concurrent jobs one timed out and the other one succeeded
ConcurrentTimeoutAndSuccess ==
  \E i, j \in Jobs :
    /\ JobState(i) = "TIMED_OUT"
    /\ JobState(j) = "SUCCEEDED"
    /\ pc[i] = "FINISHED" /\ pc[j] = "FINISHED"

\* C26: when download_gallery has returned, the temp config file it wrote
\* is gone, whichever way it returned: exit code 0, non-zero exit, timeout,
\* tool not found or any other exception.
C26_TempConfigDeleted ==
  \A j \in Jobs : ret[j].kind = "return" => j \notin tmpfiles

\* whenever the subprocess came back with an exit code, the temp config file
\* is gone when download_gallery returns
TempConfigDeletedAfterExit ==
  \A j \in Jobs :
    (ret[j].kind = "return" /\ proc[j].kind \in {"exit0", "nonzero"}) =>
      j \notin tmpfiles

\* the names of the files the archive holds
ArchivedNames(j) ==
  { disk[j].archive.entries[k].src : k \in 1..Len(disk[j].archive.entries) }

\* C27: every image file a conversion has deleted from the source directory
\* is in the archive it wrote; an image the conversion skipped (not decoded
\* for the PDF, not added to the CBZ) is still in the directory.
C27_DeletedWereArchived ==
  \A j \in Jobs :
    \A k \in 1..Len(conv[j].image_files) :
      conv[j].image_files[k] \notin disk[j].files =>
        conv[j].image_files[k].name \in ArchivedNames(j)

\* C28: the temp config written for a job names the directory of that job's
\* own sanitized title (or gallery-dl's {title} without gallery metadata),
\* whatever other threads of the same runner do meanwhile, and the runner's
\* base configuration stays as _get_base_config built it.
C28_ConfigIsolated ==
  /\ \A j \in Jobs :
       pc[j] = "cfg_written" => config_files[j].directory = DirectoryFor(ginfo[j])
  /\ base_config = BaseConfig

\* a thread that prepares its configuration alone gets its own directory
ConfigOwnWhenAlone ==
  \A j \in Jobs :
    (pc[j] = "cfg_written" /\ Cardinality(Jobs) = 1) =>
      config_files[j].directory = DirectoryFor(ginfo[j])

\* the directory of each written config is the job's own
ConfigDirectoryOwn ==
  \A j \in Jobs :
    pc[j] = "cfg_written" => config_files[j].directory = DirectoryFor(ginfo[j])

\* two threads with different galleries have written their configs, and
\* both name the directory of the second gallery
ConfigOfOtherJob ==
  /\ Cardinality(Jobs) = 2
  /\ ginfo[1] = "147838" /\ ginfo[2] = "2"
  /\ pc[1] = "cfg_written" /\ pc[2] = "cfg_written"
  /\ config_files[1].directory = << <<"C", "_">> >>
  /\ config_files[2].directory = << <<"C", "_">> >>

\* C29: the downloads table never holds more rows than
\* history.max_history_entries.
C29_RetentionCap == Cardinality(rows) <= max_history_entries

\* whenever the last operation was cleanup_old_entries with its default
\* argument, the table is within the cap
CapHoldsAfterCleanup ==
  (/\ Len(calls) > 0
   /\ calls[Len(calls)].op = "cleanup"
   /\ calls[Len(calls)].files_count = max_history_entries) =>
    Cardinality(rows) <= max_history_entries

\* a DownloadResult with a file count of zero or more, without files and
\* without a path when it failed, and with a path when files were counted
IsConsistentResult(r) ==
  /\ r.files_downloaded >= 0
  /\ ~r.success => r.files_downloaded = 0 /\ r.download_path = None
  /\ r.files_downloaded > 0 => r.download_path # None

\* C30: every result download_gallery returns and every result in the list
\* of download_multiple has files_downloaded >= 0, has no files and no
\* download path when success is False, and has a download path whenever
\* files_downloaded is positive.
C30_ResultConsistent ==
  /\ \A j \in Jobs : ret[j].kind = "return" => IsConsistentResult(ret[j].value)
  /\ \A k \in 1..Len(results) : IsConsistentResult(results[k])

\* a returned batch with a failed result and a result that counted a file
C30_Witness ==
  /\ BatchReturned
  /\ \E a, b \in 1..Len(results) :
       /\ ~results[a].success
       /\ results[a].error_message = "Download timed out"
       /\ results[b].success
       /\ results[b].files_downloaded > 0
       /\ results[b].download_path = DownloadDir

\* a returned job whose stdout had two file lines: one counted, one with an
\* error word
TwoLinesOneCounted ==
  \E j \in Jobs :
    /\ ret[j].kind = "return"
    /\ Len(proc[j].stdout) = 2
    /\ ret[j].value.files_downloaded = 1
    /\ \E k \in 1..2 : proc[j].stdout[k].skip

====
